---------------------------- MODULE Spec2Model ----------------------------
(***************************************************************************)
(* Multi-page borehole log layout: plot_dummy_borehole_log of              *)
(* borehole_log_professional_dummy2.py.                                    *)
(*                                                                         *)
(* Depths are integers counted in ticks of 0.5e-6 depth-units, so that the *)
(* label tolerance 1e-6 is EPS = 2 ticks and depths closer than the        *)
(* tolerance to a page boundary exist on the grid.  One page spans         *)
(* PAGE_SPAN ticks (10 depth-units).  Vertical axes coordinates are        *)
(* integers counted in 1/Y_ONE of the axes height; Y_ONE = 40 * PAGE_SPAN  *)
(* makes depth_to_y exact (0.975 = 39/40).  Row indices are 1-based.       *)
(***************************************************************************)
EXTENDS Integers, Sequences, FiniteSets, TLC

(* ------------------------------ bounds -------------------------------- *)
MaxIntervals == 3
MaxSpans == 2
MaxTextLen == 6
MaxChars == 4

(* ------------------------- program constants -------------------------- *)
EPS == 2
TICKS_PER_UNIT == 1000000 * EPS
PAGE_SPAN == 10 * TICKS_PER_UNIT
Y_ONE == 40 * PAGE_SPAN
bottom_line_y == Y_ONE \div 40
ground_level == (125 * TICKS_PER_UNIT) \div 2

(* column setup, in 1/X_ONE of the axes width *)
X_ONE == 10000
log_col_widths == << 500, 1000, 600, 1200, 800, 800, 1000, 3700, 400 >>

RECURSIVE log_col_x(_)
(* log_col_x[k] of the script (0-based k): the left edge of column k *)
log_col_x(k) == IF k = 0 THEN 0 ELSE log_col_x(k - 1) + log_col_widths[k]

(* an earlier set of proportions of the header row *)
new_col_widths_old == << 500, 800, 600, 1400, 800, 800, 1000, 3700, 400 >>
(* draw_header, line 222: the widths of the header's bottom row *)
new_col_widths == << 500, 1000, 600, 1200, 800, 800, 1000, 3700, 400 >>

RECURSIVE header_x(_)
(* draw_header, lines 236-296: x when cell i (0-based) is drawn; it starts *)
(* at 0.0 and is advanced by col_width after every cell                   *)
header_x(i) == IF i = 0 THEN 0 ELSE header_x(i - 1) + new_col_widths[i]

legend_left == log_col_x(6)
legend_width == log_col_widths[7]
desc_left == log_col_x(7)
desc_width == log_col_widths[8]
depth_left == log_col_x(4)
depth_width == log_col_widths[5]
level_left == log_col_x(5)
level_width == log_col_widths[6]
ruler_x == log_col_x(8)
ruler_width == log_col_widths[9]

Codes == <<"101", "102", "201", "401", "504", "801">>
Descriptions ==
    << "Dark brown silty TOPSOIL with roots",
       "Brown MADE GROUND with brick fragments",
       "Firm brown CLAY, slightly silty",
       "Medium dense fine SAND, some gravel",
       "Dense sandy GRAVEL, occasional cobbles",
       "Weathered MUDSTONE, grey, fissured" >>

(* ------------------------------ helpers ------------------------------- *)
Max(a, b) == IF a >= b THEN a ELSE b
Min(a, b) == IF a <= b THEN a ELSE b
Abs(a) == IF a >= 0 THEN a ELSE 0 - a

Row(top, base, code, desc) ==
    [Depth_Top |-> top, Depth_Base |-> base, Geology_Code |-> code,
     Description |-> desc]

(* the data frame of the script, in ticks *)
DUMMY_BOREHOLE_DATA ==
    << Row(0, TICKS_PER_UNIT \div 2, Codes[1], Descriptions[1]),
       Row(TICKS_PER_UNIT \div 2, 2 * TICKS_PER_UNIT, Codes[2], Descriptions[2]),
       Row(2 * TICKS_PER_UNIT, (9 * TICKS_PER_UNIT) \div 2, Codes[3], Descriptions[3]),
       Row((9 * TICKS_PER_UNIT) \div 2, 7 * TICKS_PER_UNIT, Codes[4], Descriptions[4]),
       Row(7 * TICKS_PER_UNIT, 10 * TICKS_PER_UNIT, Codes[5], Descriptions[5]),
       Row(10 * TICKS_PER_UNIT, 15 * TICKS_PER_UNIT, Codes[6], Descriptions[6]) >>

(* depths the generated boreholes take their boundaries from: depth 0 and  *)
(* a depth closer to it than EPS; every page boundary and the depths just  *)
(* beside it (closer than EPS); a depth exactly EPS beyond the first page  *)
(* boundary; the middle of every page                                      *)
Grid ==
    { 0, 1, PAGE_SPAN + EPS }
    \cup UNION { { k * PAGE_SPAN - 1, k * PAGE_SPAN, k * PAGE_SPAN + 1 } :
                 k \in 1..MaxSpans }
    \cup { k * PAGE_SPAN + PAGE_SPAN \div 2 : k \in 0..(MaxSpans - 1) }

RECURSIVE Chains(_)
(* strictly increasing sequences of n grid depths *)
Chains(n) ==
    IF n = 1 THEN { <<d>> : d \in Grid }
    ELSE UNION { { Append(c, d) : d \in { e \in Grid : e > c[Len(c)] } } :
                 c \in Chains(n - 1) }

FromChain(c) == [i \in 1..(Len(c) - 1) |-> Row(c[i], c[i + 1], Codes[i], Descriptions[i])]

(* valid boreholes: sorted, contiguous, 0 <= top < base *)
Boreholes ==
    UNION { { FromChain(c) : c \in Chains(n + 1) } : n \in 1..MaxIntervals }

(* ------------------------- the program's state ------------------------ *)
VARIABLES
    data,               \* the data frame (DUMMY_BOREHOLE_DATA in the script)
    pc,                 \* position in plot_dummy_borehole_log
    log_depth,          \* line 312
    last_borehole_page, \* line 313
    page_num,           \* loop variable of line 315
    page_top, page_bot, \* lines 316-317
    intervals,          \* segment list of the current page, lines 388-408
    j,                  \* index of the next segment of the draw loop, line 411
    pages,              \* per page, the segment list that was built for it
    bars,               \* lithology rectangles drawn so far
    texts,              \* code / description texts drawn so far
    labels,             \* depth and level labels drawn so far
    dividers,           \* divider lines drawn so far
    closing,            \* closing lines drawn so far
    ticks,              \* ruler ticks of the figure of the current page
    tick_labels,        \* ruler tick labels of that figure
    saved,              \* page numbers of the figures saved, in order
    fig,                \* page number of the figure that is open, 0: none
    files,              \* names of the files written by savefig, in order
    header_cells,       \* cells of the header's bottom row drawn so far
    separators          \* vertical column separators of the body drawn so far

(* the state of one call of ProfessionalBoreholeLog._wrap_text; strings    *)
(* are sequences of one-character strings                                  *)
VARIABLES
    wpc,                \* position in _wrap_text
    text, max_chars,    \* the arguments
    words,              \* text.split()
    widx,               \* index of the next word of the for loop
    lines,              \* the lines flushed so far
    current_line,       \* the words of the line being filled
    current_length,     \* the length the code keeps for that line
    result              \* the string returned

wvars == << wpc, text, max_chars, words, widx, lines, current_line,
            current_length, result >>

vars == << data, pc, log_depth, last_borehole_page, page_num, page_top,
           page_bot, intervals, j, pages, bars, texts, labels, dividers,
           closing, ticks, tick_labels, saved, fig, files, header_cells,
           separators, wvars >>

(* ---------------------------- pure parts ------------------------------ *)
RECURSIVE MaxBase(_, _)
(* DUMMY_BOREHOLE_DATA["Depth_Base"].max() *)
MaxBase(df, i) ==
    IF i = Len(df) THEN df[i].Depth_Base
    ELSE Max(df[i].Depth_Base, MaxBase(df, i + 1))

(* a trailing page is added also when the depth is a whole number of pages *)
LastPage_off_by_one(depth) == depth \div PAGE_SPAN + 1

(* int(np.ceil(log_depth / 10.0)) *)
LastPage(depth) == (depth + PAGE_SPAN - 1) \div PAGE_SPAN

(* an interval that only touches the page edge is not skipped *)
Skip_touching(d1, d2, ptop, pbot) == d2 < ptop \/ d1 > pbot

(* the skip test of the selection loop *)
Skip(d1, d2, ptop, pbot) == d2 <= ptop \/ d1 >= pbot

(* the segment top is not clamped to the page *)
ClampTop_unclamped(d1, ptop) == d1
ClampTop(d1, ptop) == Max(d1, ptop)
(* the segment base is not clamped to the page *)
ClampBase_unclamped(d2, pbot) == d2
ClampBase(d2, pbot) == Min(d2, pbot)

Segment(i, row, ptop, pbot) ==
    [ orig_idx |-> i,
      Depth_Top |-> ClampTop(row.Depth_Top, ptop),
      Depth_Base |-> ClampBase(row.Depth_Base, pbot),
      Geology_Code |-> row.Geology_Code,
      Description |-> row.Description,
      orig_Depth_Top |-> row.Depth_Top,
      orig_Depth_Base |-> row.Depth_Base ]

RECURSIVE BuildIntervals_prepend(_, _, _, _)
(* every segment is inserted at the front of the list *)
BuildIntervals_prepend(df, i, ptop, pbot) ==
    IF i > Len(df) THEN << >>
    ELSE IF Skip(df[i].Depth_Top, df[i].Depth_Base, ptop, pbot)
         THEN BuildIntervals_prepend(df, i + 1, ptop, pbot)
         ELSE BuildIntervals_prepend(df, i + 1, ptop, pbot)
              \o << Segment(i, df[i], ptop, pbot) >>

RECURSIVE BuildIntervals(_, _, _, _)
(* the loop over the rows of the data frame, from row i on *)
BuildIntervals(df, i, ptop, pbot) ==
    IF i > Len(df) THEN << >>
    ELSE IF Skip(df[i].Depth_Top, df[i].Depth_Base, ptop, pbot)
         THEN BuildIntervals(df, i + 1, ptop, pbot)
         ELSE << Segment(i, df[i], ptop, pbot) >>
              \o BuildIntervals(df, i + 1, ptop, pbot)

(* the bottom margin is forgotten: y = 1 - (depth - page_top) / 10 *)
depth_to_y_no_margin(depth, ptop) ==
    Y_ONE - (Y_ONE \div PAGE_SPAN) * (depth - ptop)

(* y = 1 - (1 - bottom_line_y) * ((depth - page_top) / 10), in 1/Y_ONE *)
depth_to_y(depth, ptop) ==
    Y_ONE - ((Y_ONE - bottom_line_y) \div PAGE_SPAN) * (depth - ptop)

(* f"{value:.2f}": the number of hundredths printed *)
Fmt2(value) ==
    (value + TICKS_PER_UNIT \div 200) \div (TICKS_PER_UNIT \div 100)

(* the top value is shown on every segment *)
show_top_always(seg) == TRUE
(* line 464 *)
show_top(seg) == Abs(seg.Depth_Top - seg.orig_Depth_Top) < EPS

(* the test for depth 0 is left out *)
DrawTop_no_zero_test(seg) == show_top(seg)
(* the top value is left out at the top of every page *)
DrawTop_not_at_page_top(seg) == show_top(seg) /\ seg.Depth_Top > page_top
(* line 465 *)
DrawTop(seg) == show_top(seg) /\ seg.Depth_Top > 0

(* the base is compared exactly *)
show_base_exact(seg) == seg.Depth_Base = seg.orig_Depth_Base
(* the base value is left out at the bottom of every page *)
show_base_inside(seg) ==
    Abs(seg.Depth_Base - seg.orig_Depth_Base) < EPS
    /\ seg.Depth_Base < page_bot
(* line 489 *)
show_base(seg) == Abs(seg.Depth_Base - seg.orig_Depth_Base) < EPS

(* no call of _wrap_text is under way *)
WrapIdle ==
    /\ wpc = "idle"
    /\ text = << >>
    /\ max_chars = 40
    /\ words = << >>
    /\ widx = 1
    /\ lines = << >>
    /\ current_line = << >>
    /\ current_length = 0
    /\ result = << >>

(* ------------------------------ actions ------------------------------- *)
Init ==
    /\ data \in Boreholes \cup { DUMMY_BOREHOLE_DATA, << >> }
    /\ pc = "start"
    /\ log_depth = 0
    /\ last_borehole_page = 0
    /\ page_num = 0
    /\ page_top = 0
    /\ page_bot = 0
    /\ intervals = << >>
    /\ j = 1
    /\ pages = << >>
    /\ bars = {}
    /\ texts = {}
    /\ labels = {}
    /\ dividers = {}
    /\ closing = {}
    /\ ticks = {}
    /\ tick_labels = {}
    /\ saved = << >>
    /\ fig = 0
    /\ files = << >>
    /\ header_cells = {}
    /\ separators = {}
    /\ WrapIdle

(* lines 311-313: the maximum depth and the number of pages; the maximum   *)
(* of an empty column is NaN, and int() of line 313 raises ValueError on   *)
(* it: the function is left by the exception                               *)
Start ==
    /\ pc = "start"
    /\ IF data = << >>
       THEN /\ pc' = "raised"
            /\ UNCHANGED << log_depth, last_borehole_page >>
       ELSE /\ log_depth' = MaxBase(data, 1)
            /\ last_borehole_page' = LastPage(MaxBase(data, 1))
            /\ pc' = "loop"
    /\ UNCHANGED << wvars, fig, files, header_cells, separators, data,
                    page_num, page_top, page_bot, intervals, j, pages, bars,
                    texts, labels, dividers, closing, ticks, tick_labels,
                    saved >>

(* lines 315-408: next page of the loop, its new figure with the header   *)
(* (line 340, the bottom row of draw_header) and the column separators    *)
(* (lines 364-370), and its segment list                                  *)
BeginPage ==
    /\ pc = "loop"
    /\ page_num + 1 <= last_borehole_page
    /\ page_num' = page_num + 1
    /\ page_top' = (page_num' - 1) * PAGE_SPAN
    /\ page_bot' = page_num' * PAGE_SPAN
    /\ intervals' = BuildIntervals(data, 1, page_top', page_bot')
    /\ pages' = Append(pages, intervals')
    /\ j' = 1
    /\ ticks' = {}
    /\ tick_labels' = {}
    /\ fig' = page_num'
    /\ header_cells' = header_cells \cup
          { [page |-> page_num', i |-> i, x |-> header_x(i),
             w |-> new_col_widths[i + 1]] : i \in 0..(Len(new_col_widths) - 1) }
    /\ separators' = separators \cup
          { [page |-> page_num', idx |-> idx, x |-> log_col_x(idx)] :
               idx \in 1..(Len(log_col_widths) - 1) }
    /\ pc' = "draw"
    /\ UNCHANGED << wvars, files, data, log_depth, last_borehole_page, bars,
                    texts, labels, dividers, closing, saved >>

(* a divider is drawn on the first segment of the page too *)
DividerDue_always(jj) == TRUE
(* line 523, "if j > 0" on the 0-based loop index *)
DividerDue(jj) == jj > 1

TopLabels(seg, y_top) ==
    IF DrawTop(seg)
    THEN { [page |-> page_num, orig_idx |-> seg.orig_idx, edge |-> "top",
            col |-> "depth", x |-> depth_left + depth_width \div 2,
            y |-> y_top, text |-> Fmt2(seg.Depth_Top), va |-> "bottom"],
           [page |-> page_num, orig_idx |-> seg.orig_idx, edge |-> "top",
            col |-> "level", x |-> level_left + level_width \div 2,
            y |-> y_top, text |-> Fmt2(ground_level - seg.Depth_Top),
            va |-> "bottom"] }
    ELSE {}

(* the level of the base is printed as depth - ground_level *)
BaseLabels_level_sign(seg, y_base) ==
    IF show_base(seg)
    THEN { [page |-> page_num, orig_idx |-> seg.orig_idx, edge |-> "base",
            col |-> "depth", x |-> depth_left + depth_width \div 2,
            y |-> y_base, text |-> Fmt2(seg.Depth_Base), va |-> "top"],
           [page |-> page_num, orig_idx |-> seg.orig_idx, edge |-> "base",
            col |-> "level", x |-> level_left + level_width \div 2,
            y |-> y_base, text |-> Fmt2(seg.Depth_Base - ground_level),
            va |-> "top"] }
    ELSE {}

(* lines 489-521: the base depth label and the base level label *)
BaseLabels(seg, y_base) ==
    IF show_base(seg)
    THEN { [page |-> page_num, orig_idx |-> seg.orig_idx, edge |-> "base",
            col |-> "depth", x |-> depth_left + depth_width \div 2,
            y |-> y_base, text |-> Fmt2(seg.Depth_Base), va |-> "top"],
           [page |-> page_num, orig_idx |-> seg.orig_idx, edge |-> "base",
            col |-> "level", x |-> level_left + level_width \div 2,
            y |-> y_base, text |-> Fmt2(ground_level - seg.Depth_Base),
            va |-> "top"] }
    ELSE {}

(* the texts are anchored at the lower edge of the bar *)
TextAnchor2_lower_edge(y_top, y_base_clipped) ==
    y_base_clipped + y_base_clipped
(* line 433, y_center = (y_top + y_base_clipped) / 2: twice y_center *)
TextAnchor2(y_top, y_base_clipped) == y_top + y_base_clipped

(* lines 411-530: one iteration of the draw loop *)
DrawSegment ==
    /\ pc = "draw"
    /\ j <= Len(intervals)
    /\ LET seg == intervals[j]
           y_top == depth_to_y(seg.Depth_Top, page_top)
           y_base == depth_to_y(seg.Depth_Base, page_top)
           borehole_end_depth == Min(log_depth, page_top + PAGE_SPAN)
           borehole_end_y == depth_to_y(borehole_end_depth, page_top)
           y_base_clipped == Max(y_base, borehole_end_y)
           y_center2 == TextAnchor2(y_top, y_base_clipped)
       IN  /\ IF y_top > y_base_clipped
              THEN /\ bars' = bars \cup
                        { [page |-> page_num, orig_idx |-> seg.orig_idx,
                           x |-> legend_left, y |-> y_base_clipped,
                           w |-> legend_width, h |-> y_top - y_base_clipped] }
                   /\ texts' = texts \cup
                        { [page |-> page_num, orig_idx |-> seg.orig_idx,
                           kind |-> "code",
                           x |-> legend_left + legend_width \div 2,
                           y2 |-> y_center2, s |-> seg.Geology_Code],
                          [page |-> page_num, orig_idx |-> seg.orig_idx,
                           kind |-> "desc",
                           x |-> desc_left + (desc_width * 2) \div 100,
                           y2 |-> y_center2, s |-> seg.Description] }
              ELSE UNCHANGED << bars, texts >>
           /\ labels' = labels \cup TopLabels(seg, y_top)
                               \cup BaseLabels(seg, y_base)
           /\ IF DividerDue(j)
              THEN dividers' = dividers \cup
                        { [page |-> page_num, j |-> j, y |-> y_top,
                           x0 |-> legend_left, x1 |-> desc_left + desc_width] }
              ELSE UNCHANGED dividers
    /\ j' = j + 1
    /\ UNCHANGED << wvars, fig, files, header_cells, separators, data, pc,
                    log_depth, last_borehole_page, page_num, page_top,
                    page_bot, intervals, pages, closing, ticks, tick_labels,
                    saved >>

(* the closing line is always drawn at the bottom margin *)
ClosingY_margin(depth, ptop) == bottom_line_y
(* lines 533-553: where the closing line of a page is drawn *)
ClosingY(depth, ptop) ==
    LET borehole_end_depth == Min(depth, ptop + PAGE_SPAN)
    IN  IF borehole_end_depth < ptop + PAGE_SPAN
        THEN depth_to_y(borehole_end_depth, ptop)
        ELSE bottom_line_y

(* lines 532-553: the closing line, once the draw loop is over *)
ClosingLine ==
    /\ pc = "draw"
    /\ j > Len(intervals)
    /\ closing' = closing \cup
          { [page |-> page_num, y |-> ClosingY(log_depth, page_top),
             x0 |-> legend_left, x1 |-> desc_left + desc_width] }
    /\ pc' = "ruler"
    /\ UNCHANGED << wvars, fig, files, header_cells, separators, data,
                    log_depth, last_borehole_page, page_num, page_top,
                    page_bot, intervals, j, pages, bars, texts, labels,
                    dividers, ticks, tick_labels, saved >>

(* the main markers are spread over the whole axes height *)
y_marker_full_height(marker, marker_start) ==
    Y_ONE - (Y_ONE \div 10) * (marker - marker_start)
(* line 569: y_marker = 1 - (1 - bottom_line_y) * ((marker - marker_start) / 10) *)
y_marker(marker, marker_start) ==
    Y_ONE - ((Y_ONE - bottom_line_y) \div 10) * (marker - marker_start)

(* the subticks are spread over the whole axes height *)
y_subtick_full_height(i, sub) == Y_ONE - (Y_ONE \div 100) * (10 * i + sub)
(* line 592: y_subtick = 1 - (1 - bottom_line_y) * ((i + sub / 10) / 10) *)
y_subtick(i, sub) ==
    Y_ONE - ((Y_ONE - bottom_line_y) \div 100) * (10 * i + sub)

(* the markers are labelled with the depth below the top of the page *)
MarkerText_page_relative(marker, marker_start) == marker - marker_start
(* line 580: f"{marker}", the integer that is printed *)
MarkerText(marker, marker_start) == marker

(* lines 555-599: main markers with their labels, and decimal subticks *)
Ruler ==
    /\ pc = "ruler"
    /\ LET marker_start == (page_num - 1) * 10
           marker_end == page_num * 10
       IN  /\ ticks' =
                { [page |-> page_num, major |-> TRUE, k |-> marker,
                        y |-> y_marker(marker, marker_start)] :
                       marker \in marker_start..marker_end }
                \cup { [page |-> page_num, major |-> FALSE,
                        k |-> 10 * ij[1] + ij[2],
                        y |-> y_subtick(ij[1], ij[2])] :
                       ij \in (0..9) \X (1..9) }
           /\ tick_labels' =
                { [page |-> page_num,
                        y |-> y_marker(marker, marker_start),
                        text |-> MarkerText(marker, marker_start)] :
                       marker \in marker_start..marker_end }
    /\ pc' = "save"
    /\ UNCHANGED << wvars, fig, files, header_cells, separators, data,
                    log_depth, last_borehole_page, page_num, page_top,
                    page_bot, intervals, j, pages, bars, texts, labels,
                    dividers, closing, saved >>

(* the same file name for every page *)
output_file_fixed(n) == "borehole_log_output_page.png"
(* line 603: f"borehole_log_output_page{page_num}.png" *)
output_file(n) == "borehole_log_output_page" \o ToString(n) \o ".png"

(* lines 601-605: savefig to borehole_log_output_page{page_num}.png, close *)
SavePage ==
    /\ pc = "save"
    /\ saved' = Append(saved, page_num)
    /\ files' = Append(files, output_file(page_num))
    /\ fig' = 0
    /\ pc' = "loop"
    /\ UNCHANGED << wvars, header_cells, separators, data, log_depth,
                    last_borehole_page, page_num, page_top, page_bot,
                    intervals, j, pages, bars, texts, labels, dividers,
                    closing, ticks, tick_labels >>

(* line 315: the range is exhausted, the function returns *)
Finish ==
    /\ pc = "loop"
    /\ page_num + 1 > last_borehole_page
    /\ pc' = "done"
    /\ UNCHANGED << wvars, fig, files, header_cells, separators, data,
                    log_depth, last_borehole_page, page_num, page_top,
                    page_bot, intervals, j, pages, bars, texts, labels,
                    dividers, closing, ticks, tick_labels, saved >>

Next ==
    \/ Start
    \/ BeginPage
    \/ DrawSegment
    \/ ClosingLine
    \/ Ruler
    \/ SavePage
    \/ Finish

Spec == Init /\ [][Next]_vars

TypeOK ==
    /\ pc \in { "start", "raised", "loop", "draw", "ruler", "save", "done" }
    /\ page_num \in 0..(MaxSpans + 1)
    /\ Len(pages) = page_num

(* ----------------------- vocabulary of the claims --------------------- *)
PTop(p) == (p - 1) * PAGE_SPAN
PBot(p) == p * PAGE_SPAN
Rows == 1..Len(data)
Built == 1..Len(pages)
Overlaps(i, p) ==
    data[i].Depth_Base > PTop(p) /\ data[i].Depth_Top < PBot(p)
SegsOf(i, p) == { k \in 1..Len(pages[p]) : pages[p][k].orig_idx = i }

RECURSIVE SpanOnPage(_, _, _)
(* the summed span of the segments k.. of page p that come from row i *)
SpanOnPage(i, p, k) ==
    IF k > Len(pages[p]) THEN 0
    ELSE (IF pages[p][k].orig_idx = i
          THEN pages[p][k].Depth_Base - pages[p][k].Depth_Top ELSE 0)
         + SpanOnPage(i, p, k + 1)

RECURSIVE SpanOnPages(_, _)
(* the same, summed over the pages p.. *)
SpanOnPages(i, p) ==
    IF p > Len(pages) THEN 0
    ELSE SpanOnPage(i, p, 1) + SpanOnPages(i, p + 1)

(* the least n with n * PAGE_SPAN >= depth *)
CeilPages(depth) ==
    CHOOSE n \in 0..(MaxSpans + 2) :
        n * PAGE_SPAN >= depth /\ (n - 1) * PAGE_SPAN < depth

DataMaxBase ==
    CHOOSE m \in { data[i].Depth_Base : i \in Rows } :
        \A i \in Rows : data[i].Depth_Base <= m

(* --------------------------------- C1 --------------------------------- *)
(* C1: when the run is over, for every interval i the spans of the        *)
(* segments of all pages that come from i sum to base_i - top_i.          *)
C1_Coverage ==
    pc = "done" =>
        \A i \in Rows :
            SpanOnPages(i, 1) = data[i].Depth_Base - data[i].Depth_Top

(* a finished run in which one interval is spread over three pages *)
C1_Witness ==
    /\ pc = "done"
    /\ \E i \in Rows : \E p \in Built :
          /\ p + 2 \in Built
          /\ SegsOf(i, p) # {} /\ SegsOf(i, p + 1) # {}
          /\ SegsOf(i, p + 2) # {}

(* --------------------------------- C2 --------------------------------- *)
(* C2: the segment list of every page holds exactly one segment for each  *)
(* interval with base > page_top and top < page_bot, and none for any     *)
(* other interval.                                                        *)
C2_Selection ==
    \A p \in Built :
        /\ \A i \in Rows :
              Cardinality(SegsOf(i, p)) = IF Overlaps(i, p) THEN 1 ELSE 0
        /\ \A k \in 1..Len(pages[p]) : pages[p][k].orig_idx \in Rows

(* a page with a selected interval, and an interval that only touches the *)
(* page's top edge and one that only touches its bottom edge              *)
C2_Witness ==
    \E p \in Built : \E a, b, c \in Rows :
        /\ Overlaps(a, p)
        /\ data[b].Depth_Base = PTop(p)
        /\ data[c].Depth_Top = PBot(p)
        /\ pc = "done"

(* --------------------------------- C3 --------------------------------- *)
(* C3: every segment has Depth_Top = max(interval top, page_top) and      *)
(* Depth_Base = min(interval base, page_bot), and so                      *)
(* page_top <= Depth_Top < Depth_Base <= page_bot.                        *)
C3_Clipping ==
    \A p \in Built : \A k \in 1..Len(pages[p]) :
        LET seg == pages[p][k]
            row == data[seg.orig_idx]
        IN  /\ seg.Depth_Top =
                  (IF row.Depth_Top >= PTop(p) THEN row.Depth_Top ELSE PTop(p))
            /\ seg.Depth_Base =
                  (IF row.Depth_Base <= PBot(p) THEN row.Depth_Base
                   ELSE PBot(p))
            /\ PTop(p) <= seg.Depth_Top
            /\ seg.Depth_Top < seg.Depth_Base
            /\ seg.Depth_Base <= PBot(p)

(* a segment cut at both ends by its page *)
C3_Witness ==
    \E p \in Built : \E k \in 1..Len(pages[p]) :
        /\ pages[p][k].orig_Depth_Top < PTop(p)
        /\ pages[p][k].orig_Depth_Base > PBot(p)
        /\ pages[p][k].Depth_Top = PTop(p)
        /\ pages[p][k].Depth_Base = PBot(p)

(* --------------------------------- C4 --------------------------------- *)
(* C4: the segments of every page are in ascending Depth_Top order and    *)
(* each segment's Depth_Base is <= the next segment's Depth_Top.          *)
C4_Ordering ==
    \A p \in Built : \A k \in 1..(Len(pages[p]) - 1) :
        /\ pages[p][k].Depth_Top <= pages[p][k + 1].Depth_Top
        /\ pages[p][k].Depth_Base <= pages[p][k + 1].Depth_Top

(* a page with three segments *)
C4_Witness ==
    \E p \in Built : Len(pages[p]) >= 3

(* --------------------------------- C5 --------------------------------- *)
(* C5 as stated: ceil(max base / 10) pages, produced once each in the     *)
(* order 1, 2, ..., exactly k pages for a maximum depth of k * 10, and no *)
(* generated page without a segment.                                      *)
C5_Original ==
    pc = "done" =>
        /\ Len(saved) = CeilPages(DataMaxBase)
        /\ \A n \in 1..Len(saved) : saved[n] = n
        /\ \A k \in 1..(MaxSpans + 1) :
              DataMaxBase = k * PAGE_SPAN => Len(saved) = k
        /\ \A p \in Built : Len(pages[p]) >= 1

(* C5, amended: ceil(max base / 10) pages, produced once each in the      *)
(* order 1, 2, ..., exactly k pages for a maximum depth of k * 10; a      *)
(* generated page is without a segment exactly when the first interval's  *)
(* top is >= the page's bottom depth, and the last page never is.         *)
C5_PageCount ==
    /\ \A n \in 1..Len(saved) : saved[n] = n
    /\ pc = "done" =>
        /\ Len(saved) = CeilPages(DataMaxBase)
        /\ Len(pages) = Len(saved)
        /\ \A k \in 1..(MaxSpans + 1) :
              DataMaxBase = k * PAGE_SPAN => Len(saved) = k
        /\ \A p \in Built :
              Len(pages[p]) = 0 <=> data[1].Depth_Top >= PBot(p)
        /\ Len(pages[Len(pages)]) >= 1

(* a finished run of a borehole that ends exactly at the bottom of page 2 *)
(* and starts on page 2                                                   *)
C5_Witness ==
    /\ pc = "done"
    /\ DataMaxBase = 2 * PAGE_SPAN
    /\ Len(saved) = 2
    /\ data[1].Depth_Top >= PAGE_SPAN

(* ------------------------- labels of a segment ------------------------ *)
HasLabel(p, i, e, c) ==
    \E l \in labels :
        l.page = p /\ l.orig_idx = i /\ l.edge = e /\ l.col = c

(* segment k of page p has been through the draw loop *)
Drawn(p, k) == p < page_num \/ (p = page_num /\ k < j)

is_true_top(p, k) ==
    LET d == pages[p][k].Depth_Top - data[pages[p][k].orig_idx].Depth_Top
    IN  d > 0 - EPS /\ d < EPS

is_true_bottom(p, k) ==
    LET d == pages[p][k].Depth_Base - data[pages[p][k].orig_idx].Depth_Base
    IN  d > 0 - EPS /\ d < EPS

(* --------------------------------- C6 --------------------------------- *)
(* C6: a segment that has been drawn has its top depth label, and its top *)
(* level label, exactly if its top is within 1e-6 of the interval's top   *)
(* and is > 0; a segment that starts at depth 0 has no top label.         *)
C6_TopLabel ==
    \A p \in Built : \A k \in 1..Len(pages[p]) :
        LET seg == pages[p][k]
            due == Drawn(p, k) /\ is_true_top(p, k) /\ seg.Depth_Top > 0
        IN  /\ HasLabel(p, seg.orig_idx, "top", "depth") <=> due
            /\ HasLabel(p, seg.orig_idx, "top", "level") <=> due
            /\ seg.Depth_Top = 0 =>
                  ~ HasLabel(p, seg.orig_idx, "top", "depth")

(* a finished run with a segment at depth 0, a segment cut at its top, a  *)
(* labelled segment whose top is exact and one whose top is only within   *)
(* the tolerance                                                          *)
C6_Witness ==
    /\ pc = "done"
    /\ \E k \in 1..Len(pages[1]) : pages[1][k].Depth_Top = 0
    /\ \E p \in Built : \E k \in 1..Len(pages[p]) :
          ~ is_true_top(p, k)
    /\ \E p \in Built : \E k \in 1..Len(pages[p]) :
          /\ pages[p][k].Depth_Top = pages[p][k].orig_Depth_Top
          /\ HasLabel(p, pages[p][k].orig_idx, "top", "depth")
    /\ \E p \in Built : \E k \in 1..Len(pages[p]) :
          /\ pages[p][k].Depth_Top # pages[p][k].orig_Depth_Top
          /\ HasLabel(p, pages[p][k].orig_idx, "top", "depth")

(* --------------------------------- C7 --------------------------------- *)
(* C7: a segment that has been drawn has its base depth label, and its    *)
(* base level label, exactly if its base is within 1e-6 of the interval's *)
(* base.                                                                  *)
C7_BaseLabel ==
    \A p \in Built : \A k \in 1..Len(pages[p]) :
        LET seg == pages[p][k]
            due == Drawn(p, k) /\ is_true_bottom(p, k)
        IN  /\ HasLabel(p, seg.orig_idx, "base", "depth") <=> due
            /\ HasLabel(p, seg.orig_idx, "base", "level") <=> due

(* a finished run with a segment cut at its base, a labelled segment      *)
(* whose base is exact and one whose base is only within the tolerance    *)
C7_Witness ==
    /\ pc = "done"
    /\ \E p \in Built : \E k \in 1..Len(pages[p]) :
          ~ is_true_bottom(p, k)
    /\ \E p \in Built : \E k \in 1..Len(pages[p]) :
          /\ pages[p][k].Depth_Base = pages[p][k].orig_Depth_Base
          /\ HasLabel(p, pages[p][k].orig_idx, "base", "depth")
    /\ \E p \in Built : \E k \in 1..Len(pages[p]) :
          /\ pages[p][k].Depth_Base # pages[p][k].orig_Depth_Base
          /\ HasLabel(p, pages[p][k].orig_idx, "base", "depth")

(* --------------------------------- C8 --------------------------------- *)
(* interval i strictly straddles the boundary between pages b and b + 1 *)
Straddles(i, b) ==
    /\ data[i].Depth_Top < PBot(b) - EPS
    /\ data[i].Depth_Base > PBot(b) + EPS

(* C8: for an interval that straddles a page boundary by more than 1e-6   *)
(* on both sides, no base label (depth or level) is drawn for it on the   *)
(* page that ends at the boundary and no top label on the page that       *)
(* starts there.                                                          *)
C8_NoLabelAtCut ==
    \A i \in Rows : \A b \in 1..(MaxSpans + 1) :
        Straddles(i, b) =>
            \A c \in { "depth", "level" } :
                /\ ~ HasLabel(b, i, "base", c)
                /\ ~ HasLabel(b + 1, i, "top", c)

(* a finished run in which a straddling interval has a segment on both    *)
(* pages of the boundary, both drawn                                      *)
C8_Witness ==
    /\ pc = "done"
    /\ \E i \in Rows : \E b \in Built :
          /\ Straddles(i, b)
          /\ b + 1 \in Built
          /\ SegsOf(i, b) # {} /\ SegsOf(i, b + 1) # {}

(* --------------------------------- C9 --------------------------------- *)
(* row i is the interval 7.0 - 10.0 and row i + 1 starts at 10.0 *)
SevenToTen(i) ==
    /\ i + 1 \in Rows
    /\ data[i].Depth_Top = 7 * TICKS_PER_UNIT
    /\ data[i].Depth_Base = 10 * TICKS_PER_UNIT
    /\ data[i + 1].Depth_Top = 10 * TICKS_PER_UNIT

(* C9 as stated: the page-1 segment of the interval 7.0 - 10.0 has        *)
(* is_true_bottom = FALSE and no base depth label, and the page-2 segment *)
(* that starts at 10.0 has is_true_top = FALSE and no top label.          *)
C9_Original ==
    pc = "done" =>
        \A i \in Rows : SevenToTen(i) =>
            /\ \A k \in SegsOf(i, 1) : ~ is_true_bottom(1, k)
            /\ ~ HasLabel(1, i, "base", "depth")
            /\ \A k \in SegsOf(i + 1, 2) : ~ is_true_top(2, k)
            /\ ~ HasLabel(2, i + 1, "top", "depth")

(* C9, amended: the page-1 segment of the interval 7.0 - 10.0 has         *)
(* is_true_bottom = TRUE and its base depth label 10.00 is drawn, and the *)
(* page-2 segment that starts at 10.0 has is_true_top = TRUE and its top  *)
(* label 10.00 is drawn.                                                  *)
C9_SeamLabels ==
    pc = "done" =>
        \A i \in Rows : SevenToTen(i) =>
            /\ SegsOf(i, 1) # {} /\ SegsOf(i + 1, 2) # {}
            /\ \A k \in SegsOf(i, 1) : is_true_bottom(1, k)
            /\ \E l \in labels :
                  /\ l.page = 1 /\ l.orig_idx = i /\ l.edge = "base"
                  /\ l.col = "depth" /\ l.text = 1000
            /\ \A k \in SegsOf(i + 1, 2) : is_true_top(2, k)
            /\ \E l \in labels :
                  /\ l.page = 2 /\ l.orig_idx = i + 1 /\ l.edge = "top"
                  /\ l.col = "depth" /\ l.text = 1000

(* a finished run on a borehole with the interval 7.0 - 10.0 followed by  *)
(* an interval from 10.0, two pages drawn                                 *)
C9_Witness ==
    /\ pc = "done"
    /\ Len(saved) = 2
    /\ \E i \in Rows : SevenToTen(i)

(* -------------------------------- C10 --------------------------------- *)
(* C10: when the run is over, for every depth d > 0 at which one interval *)
(* ends and the next begins the base label of the upper interval and the  *)
(* top label of the lower one have been drawn; when d is a page boundary  *)
(* the base label is on the page ending at d and the top label on the     *)
(* page starting at d.                                                    *)
C10_TrueBoundaryLabels ==
    pc = "done" =>
        \A i \in Rows :
            (i + 1 \in Rows /\ data[i].Depth_Base = data[i + 1].Depth_Top
                /\ data[i].Depth_Base > 0) =>
            \A c \in { "depth", "level" } :
                /\ \E p \in Built : HasLabel(p, i, "base", c)
                /\ \E p \in Built : HasLabel(p, i + 1, "top", c)
                /\ \A b \in 1..(MaxSpans + 1) :
                      data[i].Depth_Base = PBot(b) =>
                          /\ HasLabel(b, i, "base", c)
                          /\ HasLabel(b + 1, i + 1, "top", c)

(* a finished run with a stratum change exactly on a page boundary and    *)
(* one inside a page                                                      *)
C10_Witness ==
    /\ pc = "done"
    /\ \E i \in Rows :
          i + 1 \in Rows /\ data[i].Depth_Base = PAGE_SPAN
    /\ \E i \in Rows :
          i + 1 \in Rows /\ data[i].Depth_Base = PAGE_SPAN \div 2

(* -------------------------------- C11 --------------------------------- *)
U(tenths) == (tenths * TICKS_PER_UNIT) \div 10

(* the depth ranges of the segments of page p, in order *)
Ranges(p) ==
    [k \in 1..Len(pages[p]) |->
        << pages[p][k].Depth_Top, pages[p][k].Depth_Base >>]

LabelText(p, i, e, c) ==
    { l.text : l \in { m \in labels : m.page = p /\ m.orig_idx = i
                                      /\ m.edge = e /\ m.col = c } }

(* C11: for the six intervals of the script, when the run is over exactly *)
(* 2 pages have been produced; page 1 has exactly the 5 segments 0-0.5,   *)
(* 0.5-2, 2-4.5, 4.5-7, 7-10, none of them cut; page 2 has exactly the    *)
(* segment 10-15, with the top label 10.00 and the base label 15.00.      *)
C11_EndToEnd ==
    (pc = "done" /\ data = DUMMY_BOREHOLE_DATA) =>
        /\ saved = << 1, 2 >>
        /\ Len(pages) = 2
        /\ Ranges(1) = << << U(0), U(5) >>, << U(5), U(20) >>,
                          << U(20), U(45) >>, << U(45), U(70) >>,
                          << U(70), U(100) >> >>
        /\ \A k \in 1..Len(pages[1]) :
              /\ pages[1][k].orig_idx = k
              /\ pages[1][k].Depth_Top = data[k].Depth_Top
              /\ pages[1][k].Depth_Base = data[k].Depth_Base
        /\ Ranges(2) = << << U(100), U(150) >> >>
        /\ pages[2][1].orig_idx = 6
        /\ LabelText(2, 6, "top", "depth") = { 1000 }
        /\ LabelText(2, 6, "base", "depth") = { 1500 }

(* the run on the six intervals of the script is over *)
C11_Witness ==
    /\ pc = "done"
    /\ data = DUMMY_BOREHOLE_DATA
    /\ Len(data) = 6
    /\ labels # {}

(* -------------------------------- C12 --------------------------------- *)
DividersOf(p) == { v \in dividers : v.page = p }

(* the number of segments of page p that have been through the draw loop *)
DrawnCount(p) ==
    IF p < page_num THEN Len(pages[p])
    ELSE IF p = page_num THEN j - 1 ELSE 0

(* C12: on every page there is one divider at the top of every drawn      *)
(* segment but the first, and no other; a page whose n >= 1 segments are  *)
(* drawn has n - 1 dividers, and each lies at the boundary between two    *)
(* consecutive segments (the base of one, the top of the next).           *)
C12_Dividers ==
    \A p \in Built :
        /\ \A v \in DividersOf(p) :
              /\ v.j \in 2..DrawnCount(p)
              /\ v.y = depth_to_y(pages[p][v.j].Depth_Top, PTop(p))
              /\ v.y = depth_to_y(pages[p][v.j - 1].Depth_Base, PTop(p))
              /\ pages[p][v.j].Depth_Top = pages[p][v.j - 1].Depth_Base
        /\ \A k \in 2..DrawnCount(p) :
              Cardinality({ v \in DividersOf(p) : v.j = k }) = 1
        /\ DrawnCount(p) >= 1 =>
              Cardinality(DividersOf(p)) = DrawnCount(p) - 1
        /\ \A v \in dividers : v.page \in Built

(* a finished run with a page of three segments and a page of one *)
C12_Witness ==
    /\ pc = "done"
    /\ \E p \in Built :
          Len(pages[p]) = 3 /\ Cardinality(DividersOf(p)) = 2
    /\ \E p \in Built :
          Len(pages[p]) = 1 /\ DividersOf(p) = {}

(* -------------------------------- C13 --------------------------------- *)
ClosingOf(p) == { v \in closing : v.page = p }

(* the draw loop of page p is over and its closing line has been drawn *)
Closed(p) ==
    \/ p < page_num
    \/ p = page_num /\ pc \in { "ruler", "save", "loop", "done" }

(* C13: every page whose draw loop is over has exactly one closing line;  *)
(* it is at depth_to_y(maximum depth) if the maximum depth is strictly    *)
(* less than the page's bottom depth, and at y = 0.025 otherwise.         *)
C13_ClosingLine ==
    \A p \in Built :
        IF Closed(p)
        THEN /\ Cardinality(ClosingOf(p)) = 1
             /\ \A v \in ClosingOf(p) :
                   IF DataMaxBase < PBot(p)
                   THEN v.y = Y_ONE - 39 * (DataMaxBase - PTop(p))
                   ELSE v.y = Y_ONE \div 40
        ELSE ClosingOf(p) = {}

(* a finished run whose last page ends inside the page and whose first    *)
(* page is full                                                           *)
C13_Witness ==
    /\ pc = "done"
    /\ Len(pages) >= 2
    /\ DataMaxBase < PBot(Len(pages))
    /\ \E v \in ClosingOf(1) : v.y = bottom_line_y
    /\ \E v \in ClosingOf(Len(pages)) : v.y > bottom_line_y

(* -------------------------------- C14 --------------------------------- *)
(* the y of the end of the borehole on page p, or of the page bottom:     *)
(* 1 - 0.975 * (min(maximum depth, page bottom) - page top) / 10          *)
EndY(p) ==
    LET d == IF DataMaxBase <= PBot(p) THEN DataMaxBase ELSE PBot(p)
    IN  Y_ONE - 39 * (d - PTop(p))

(* C14: the lower edge of every lithology bar is at or above the y of     *)
(* min(maximum borehole depth, page bottom depth), and every bar that is  *)
(* drawn has a strictly positive height.                                  *)
C14_EndClipping ==
    \A b \in bars :
        /\ b.page \in Built
        /\ b.y >= EndY(b.page)
        /\ b.h > 0
        /\ b.y + b.h <= Y_ONE

(* a finished run whose last page has blank depth below the borehole's    *)
(* end, with a bar that reaches exactly down to that end                  *)
C14_Witness ==
    /\ pc = "done"
    /\ DataMaxBase < PBot(Len(pages))
    /\ \E b \in bars :
          /\ b.page = Len(pages)
          /\ b.y = EndY(b.page)
          /\ b.y > bottom_line_y
    /\ Cardinality(bars) >= 3

(* -------------------------------- C15 --------------------------------- *)
(* interval i only touches an edge of page p *)
Touches(i, p) ==
    data[i].Depth_Base = PTop(p) \/ data[i].Depth_Top = PBot(p)

(* C15: an interval that only touches a page edge (base = page_top or     *)
(* top = page_bot) has no segment and no bar on that page, and no segment *)
(* of any page has Depth_Top = Depth_Base.                                *)
C15_ZeroHeightDropped ==
    /\ \A p \in Built : \A i \in Rows :
          Touches(i, p) =>
              /\ SegsOf(i, p) = {}
              /\ ~ \E b \in bars : b.page = p /\ b.orig_idx = i
    /\ \A p \in Built : \A k \in 1..Len(pages[p]) :
          pages[p][k].Depth_Top # pages[p][k].Depth_Base

(* a finished run with an interval that ends on the top edge of page 2    *)
(* and an interval that starts on the bottom edge of page 1, both pages   *)
(* drawn                                                                  *)
C15_Witness ==
    /\ pc = "done"
    /\ Len(pages) >= 2
    /\ \E i \in Rows : data[i].Depth_Base = PTop(2) /\ Touches(i, 2)
    /\ \E i \in Rows : data[i].Depth_Top = PBot(1) /\ Touches(i, 1)
    /\ bars # {}

(* -------------------------------- C16 --------------------------------- *)
TextsOf(p, i, kind) ==
    { t \in texts : t.page = p /\ t.orig_idx = i /\ t.kind = kind }

(* C16: for every bar that is drawn, one geology code text and one        *)
(* description text are drawn, both anchored at the vertical centre of    *)
(* the bar, which is the centre of the segment's clipped depth range on   *)
(* its page; no such text is drawn without a bar.                         *)
C16_TextAnchor ==
    /\ \A b \in bars :
          /\ b.page \in Built
          /\ \A kind \in { "code", "desc" } :
                /\ Cardinality(TextsOf(b.page, b.orig_idx, kind)) = 1
                /\ \A t \in TextsOf(b.page, b.orig_idx, kind) :
                      /\ t.y2 = 2 * b.y + b.h
                      /\ \A k \in SegsOf(b.orig_idx, b.page) :
                            t.y2 = 2 * Y_ONE
                                   - 39 * (pages[b.page][k].Depth_Top
                                           + pages[b.page][k].Depth_Base
                                           - 2 * PTop(b.page))
          /\ \A t \in TextsOf(b.page, b.orig_idx, "code") :
                t.s = data[b.orig_idx].Geology_Code
          /\ \A t \in TextsOf(b.page, b.orig_idx, "desc") :
                t.s = data[b.orig_idx].Description
    /\ \A t \in texts :
          \E b \in bars : b.page = t.page /\ b.orig_idx = t.orig_idx

(* a finished run with a bar of a segment that is cut by its page at both *)
(* ends, so that the centre of the bar is not that of the interval        *)
C16_Witness ==
    /\ pc = "done"
    /\ \E b \in bars : \E k \in SegsOf(b.orig_idx, b.page) :
          /\ pages[b.page][k].Depth_Top > pages[b.page][k].orig_Depth_Top
          /\ pages[b.page][k].Depth_Base < pages[b.page][k].orig_Depth_Base
          /\ pages[b.page][k].Depth_Top + pages[b.page][k].Depth_Base
                # pages[b.page][k].orig_Depth_Top
                  + pages[b.page][k].orig_Depth_Base
          /\ TextsOf(b.page, b.orig_idx, "desc") # {}

(* -------------------------------- C17 --------------------------------- *)
(* depths of the current page at which depth_to_y is probed: the page     *)
(* edges, their neighbours, the midpoint, and the segment boundaries      *)
Probes ==
    { page_top + o : o \in { 0, 1, EPS, PAGE_SPAN \div 2 - 1,
                             PAGE_SPAN \div 2, PAGE_SPAN - 1, PAGE_SPAN } }
    \cup { intervals[k].Depth_Top : k \in 1..Len(intervals) }
    \cup { intervals[k].Depth_Base : k \in 1..Len(intervals) }

Ruled(p) == p = page_num /\ pc \in { "save", "loop", "done" }

Majors(p) == { t \in ticks : t.page = p /\ t.major }
Minors(p) == { t \in ticks : t.page = p /\ ~ t.major }
MarkerTexts(p) == { t \in tick_labels : t.page = p }

(* C18: the figure of a page N has no tick before its ruler is drawn;     *)
(* once the ruler is drawn it has exactly 11 major ticks, one for         *)
(* each integer depth from (N-1)*10 to N*10, each labelled with that      *)
(* absolute depth, and exactly 90 minor ticks, 9 strictly between each    *)
(* pair of consecutive major ticks, none of them labelled.                *)
C18_RulerTicks ==
    \A p \in 1..(MaxSpans + 1) :
        IF Ruled(p)
        THEN /\ Cardinality(Majors(p)) = 11
             /\ { t.k : t \in Majors(p) } = ((p - 1) * 10)..(p * 10)
             /\ Cardinality(MarkerTexts(p)) = 11
             /\ \A t \in Majors(p) :
                   { l.text : l \in { m \in MarkerTexts(p) : m.y = t.y } }
                      = { t.k }
             /\ Cardinality(Minors(p)) = 90
             /\ \A a, b \in Majors(p) :
                   b.k = a.k + 1 =>
                      /\ b.y < a.y
                      /\ Cardinality({ t \in Minors(p) :
                                          t.y < a.y /\ t.y > b.y }) = 9
             /\ \A t \in Minors(p) :
                   ~ \E l \in MarkerTexts(p) : l.y = t.y
        ELSE Majors(p) = {} /\ Minors(p) = {} /\ MarkerTexts(p) = {}

(* the ruler of the second page has been drawn *)
C18_Witness ==
    /\ page_num = 2
    /\ pc = "save"
    /\ \E t \in Majors(2) : t.k = 20
    /\ \E l \in MarkerTexts(2) : l.text = 20

(* -------------------------------- C19 --------------------------------- *)
(* the depth of a tick of page p: the absolute depth k of a major tick,   *)
(* k tenths below the top of the page for a minor tick                    *)
TickDepth(t) ==
    IF t.major THEN t.k * TICKS_PER_UNIT
    ELSE PTop(t.page) + t.k * (TICKS_PER_UNIT \div 10)

Alphabet == { "a", "b", " " }
Whitespace == { " ", "\n" }

(* the texts _wrap_text is called with *)
Texts == UNION { [1..n -> Alphabet] : n \in 0..MaxTextLen }

RECURSIVE SplitFrom(_, _, _, _)
(* str.split() from position i on: cur is the word being read, acc the   *)
(* words read so far                                                      *)
SplitFrom(s, i, cur, acc) ==
    LET flushed == IF cur # << >> THEN Append(acc, cur) ELSE acc
    IN  IF i > Len(s) THEN flushed
        ELSE IF s[i] \in Whitespace
             THEN SplitFrom(s, i + 1, << >>, flushed)
             ELSE SplitFrom(s, i + 1, Append(cur, s[i]), acc)

(* text.split() *)
Split(s) == SplitFrom(s, 1, << >>, << >>)

RECURSIVE Join(_, _)
(* sep.join(parts) *)
Join(parts, sep) ==
    IF parts = << >> THEN << >>
    ELSE IF Len(parts) = 1 THEN parts[1]
    ELSE parts[1] \o << sep >> \o Join(Tail(parts), sep)

(* the word is put on a line only if it leaves a spare character *)
Fits_strict(length, word, limit) == length + Len(word) + 1 < limit
(* line 415: current_length + len(word) + 1 <= max_chars *)
Fits(length, word, limit) == length + Len(word) + 1 <= limit

(* the length of a line that is started is counted like that of a word    *)
(* that is appended                                                       *)
StartLength_plus_one(word) == Len(word) + 1
(* a line that is started is counted as empty *)
StartLength_reset(word) == 0
(* line 422: current_length = len(word) *)
StartLength(word) == Len(word)

WrapInit ==
    /\ text \in Texts
    /\ max_chars \in 1..MaxChars
    /\ wpc = "call"
    /\ words = << >>
    /\ widx = 1
    /\ lines = << >>
    /\ current_line = << >>
    /\ current_length = 0
    /\ result = << >>
    /\ data = DUMMY_BOREHOLE_DATA
    /\ pc = "idle"
    /\ log_depth = 0
    /\ last_borehole_page = 0
    /\ page_num = 0
    /\ page_top = 0
    /\ page_bot = 0
    /\ intervals = << >>
    /\ j = 1
    /\ pages = << >>
    /\ bars = {}
    /\ texts = {}
    /\ labels = {}
    /\ dividers = {}
    /\ closing = {}
    /\ ticks = {}
    /\ tick_labels = {}
    /\ saved = << >>
    /\ fig = 0
    /\ files = << >>
    /\ header_cells = {}
    /\ separators = {}

bvars == << data, pc, log_depth, last_borehole_page, page_num, page_top,
            page_bot, intervals, j, pages, bars, texts, labels, dividers,
            closing, ticks, tick_labels, saved, fig, files, header_cells,
            separators >>

(* lines 406-407: short text is returned as it is *)
WrapShort ==
    /\ wpc = "call"
    /\ Len(text) <= max_chars
    /\ result' = text
    /\ wpc' = "done"
    /\ UNCHANGED << bvars, text, max_chars, words, widx, lines,
                    current_line, current_length >>

(* lines 409-412: the text is split and the loop is set up *)
WrapSplit ==
    /\ wpc = "call"
    /\ Len(text) > max_chars
    /\ words' = Split(text)
    /\ widx' = 1
    /\ lines' = << >>
    /\ current_line' = << >>
    /\ current_length' = 0
    /\ wpc' = "loop"
    /\ UNCHANGED << bvars, text, max_chars, result >>

(* lines 414-422: one iteration of the loop over the words *)
WrapWord ==
    /\ wpc = "loop"
    /\ widx <= Len(words)
    /\ LET word == words[widx]
       IN  IF Fits(current_length, word, max_chars)
           THEN /\ current_line' = Append(current_line, word)
                /\ current_length' = current_length + Len(word) + 1
                /\ UNCHANGED lines
           ELSE /\ lines' = IF current_line # << >>
                            THEN Append(lines, Join(current_line, " "))
                            ELSE lines
                /\ current_line' = << word >>
                /\ current_length' = StartLength(word)
    /\ widx' = widx + 1
    /\ UNCHANGED << bvars, wpc, text, max_chars, words, result >>

(* lines 424-427: the last line is flushed and the lines are joined *)
WrapReturn ==
    /\ wpc = "loop"
    /\ widx > Len(words)
    /\ lines' = IF current_line # << >>
                THEN Append(lines, Join(current_line, " "))
                ELSE lines
    /\ result' = Join(lines', "\n")
    /\ wpc' = "done"
    /\ UNCHANGED << bvars, text, max_chars, words, widx, current_line,
                    current_length >>

WrapNext ==
    \/ WrapShort
    \/ WrapSplit
    \/ WrapWord
    \/ WrapReturn

WrapSpec == WrapInit /\ [][WrapNext]_vars

(* -------------------------------- C20 --------------------------------- *)
(* the words of the lines flushed so far and of the line being filled *)
WordsPlaced == Split(Join(lines, "\n")) \o current_line

(* the loop has taken the words in order, and no line is empty *)
WrapProgress ==
    wpc \in { "loop", "done" } /\ Len(text) > max_chars =>
        /\ words = Split(text)
        /\ wpc = "loop" => WordsPlaced = SubSeq(words, 1, widx - 1)
        /\ \A n \in 1..Len(lines) : lines[n] # << >>
        /\ wpc = "done" =>
              /\ widx = Len(words) + 1
              /\ Split(result) = Split(text)
              /\ Split(Join(lines, "\n")) = words

(* one iteration appends the word if current_length + len(word) + 1 <=   *)
(* max_chars, else flushes the current line and starts a line with it    *)
WrapGreedyStep ==
    (wpc = "loop" /\ widx <= Len(words)) =>
        LET word == words[widx]
        IN  /\ widx' = widx + 1
            /\ IF current_length + Len(word) + 1 <= max_chars
               THEN /\ current_line' = Append(current_line, word)
                    /\ lines' = lines
               ELSE /\ current_line' = << word >>
                    /\ lines' = IF current_line = << >> THEN lines
                                ELSE Append(lines, Join(current_line, " "))

(* C20: for text longer than max_chars the words are taken in order; a    *)
(* word is appended to the current line exactly if current_length +       *)
(* len(word) + 1 <= max_chars, otherwise the current line is flushed and  *)
(* a new line is started with the word; the lines of the result hold      *)
(* every word of the input once, in the original order, and none of them  *)
(* is empty.                                                              *)
C20_GreedyWrap == [] WrapProgress /\ [][WrapGreedyStep]_vars

(* a finished wrap of a text longer than max_chars into at least two      *)
(* lines, one of them with two words                                      *)
C20_Witness ==
    /\ wpc = "done"
    /\ Len(text) > max_chars
    /\ Len(lines) >= 2
    /\ \E n \in 1..Len(lines) : Len(Split(lines[n])) = 2

(* -------------------------------- C21 --------------------------------- *)
RECURSIVE LinesFrom(_, _, _, _)
(* the lines of a returned string: the pieces between its line breaks *)
LinesFrom(s, i, cur, acc) ==
    IF i > Len(s) THEN Append(acc, cur)
    ELSE IF s[i] = "\n"
         THEN LinesFrom(s, i + 1, << >>, Append(acc, cur))
         ELSE LinesFrom(s, i + 1, Append(cur, s[i]), acc)

LinesOf(s) == LinesFrom(s, 1, << >>, << >>)

(* the line is one word, longer than the limit *)
LongWordAlone(line, limit) == Len(line) > limit /\ Split(line) = << line >>

(* C21: every line of the string _wrap_text returns is at most max_chars  *)
(* long, except a line that is one single word longer than max_chars;     *)
(* every word of the text longer than max_chars is such a line, whole and *)
(* with no other word.                                                    *)
C21_LineLength ==
    wpc = "done" =>
        /\ \A n \in 1..Len(LinesOf(result)) :
              LET line == LinesOf(result)[n]
              IN  \/ Len(line) <= max_chars
                  \/ /\ LongWordAlone(line, max_chars)
                     /\ \E i \in 1..Len(words) : words[i] = line
        /\ Len(text) > max_chars =>
              /\ LinesOf(result) = IF lines = << >> THEN << << >> >> ELSE lines
              /\ \A i \in 1..Len(words) :
                    Len(words[i]) > max_chars =>
                       \E n \in 1..Len(lines) : lines[n] = words[i]

(* a finished wrap where a word longer than max_chars has a line of its   *)
(* own, next to a line that is exactly max_chars long                     *)
C21_Witness ==
    /\ wpc = "done"
    /\ Len(text) > max_chars
    /\ Len(words) >= 2
    /\ \E n \in 1..Len(lines) : LongWordAlone(lines[n], max_chars)
    /\ \E n \in 1..Len(lines) : Len(lines[n]) = max_chars

(* -------------------------------- C22 --------------------------------- *)
RECURSIVE WrapLoop(_, _, _, _, _, _)
(* lines 414-425: the loop over the words from word i on, and the flush   *)
(* of the last line                                                       *)
WrapLoop(ws, i, ls, cur, length, limit) ==
    IF i > Len(ws)
    THEN IF cur # << >> THEN Append(ls, Join(cur, " ")) ELSE ls
    ELSE IF Fits(length, ws[i], limit)
         THEN WrapLoop(ws, i + 1, ls, Append(cur, ws[i]),
                       length + Len(ws[i]) + 1, limit)
         ELSE WrapLoop(ws, i + 1,
                       IF cur # << >> THEN Append(ls, Join(cur, " ")) ELSE ls,
                       << ws[i] >>, StartLength(ws[i]), limit)

(* lines 404-427: _wrap_text(text, max_chars) as a function of its input *)
wrap_text(t, limit) ==
    IF Len(t) <= limit THEN t
    ELSE Join(WrapLoop(Split(t), 1, << >>, << >>, 0, limit), "\n")

(* the lines of the returned string joined with single spaces *)
Rejoined == Join(LinesOf(result), " ")

(* C22: joining the lines of _wrap_text(text, max_chars) with single      *)
(* spaces and wrapping the result again with the same max_chars gives the *)
(* same lines as the first wrap.                                          *)
C22_Idempotent ==
    wpc = "done" =>
        LinesOf(wrap_text(Rejoined, max_chars)) = LinesOf(result)

(* -------------------------------- C23 --------------------------------- *)
(* borehole_log_professional.py, create_borehole_log, lines 141-189: what *)
(* the call leaves behind: the figure it returns, the "No data available" *)
(* warning of line 162, the columns plotted by lines 169-173               *)
create_borehole_log(borehole_data) ==
    IF borehole_data = << >>
    THEN [figure |-> TRUE, warning |-> TRUE, plotted |-> FALSE]
    ELSE [figure |-> TRUE, warning |-> FALSE, plotted |-> TRUE]

(* borehole_log_professional.py, plot_borehole_log_from_ags_content,      *)
(* lines 61-93: geol_bh holds the rows of the requested borehole; None is *)
(* returned when there are none                                           *)
plot_borehole_log_from_ags_content(geol_bh) ==
    IF geol_bh = << >>
    THEN [figure |-> FALSE, warning |-> FALSE, plotted |-> FALSE]
    ELSE create_borehole_log(geol_bh)

(* C23: with an empty interval list nothing is drawn and no page is       *)
(* produced, and the caller gets a normal "no data" outcome, never an     *)
(* exception: the AGS entry point returns None, create_borehole_log warns *)
(* and plots nothing, and the multi-page page loop ends normally with no  *)
(* page saved.                                                            *)
C23_EmptyInput ==
    data = << >> =>
        /\ ~ plot_borehole_log_from_ags_content(data).figure
        /\ create_borehole_log(data).warning
        /\ ~ create_borehole_log(data).plotted
        /\ pc # "raised"
        /\ pages = << >> /\ saved = << >>

(* -------------------------------- C24 --------------------------------- *)
(* everything drawn so far, by the page of the figure it was drawn on *)
DrawnOn ==
    { v.page : v \in bars } \cup { v.page : v \in texts }
    \cup { v.page : v \in labels } \cup { v.page : v \in dividers }
    \cup { v.page : v \in closing } \cup { v.page : v \in ticks }
    \cup { v.page : v \in tick_labels }

(* the files are those of pages 1, 2, ... in this order, no name twice,   *)
(* and while page N is being drawn exactly pages 1..N-1 are written and   *)
(* closed                                                                 *)
PagesInOrder ==
    /\ \A n \in 1..Len(files) : files[n] = output_file(n) /\ saved[n] = n
    /\ Len(files) = Len(saved)
    /\ Len(files) >= 1 => files[1] = "borehole_log_output_page1.png"
    /\ \A m, n \in 1..Len(files) : m # n => files[m] # files[n]
    /\ pc \in { "draw", "ruler", "save" } =>
          fig = page_num /\ Len(files) = page_num - 1
    /\ pc \in { "start", "raised", "loop", "done" } =>
          fig = 0 /\ Len(files) = page_num
    /\ \A p \in DrawnOn : p <= page_num
    /\ pc = "done" =>
          /\ Len(files) = last_borehole_page
          /\ \A p \in 1..last_borehole_page :
                Cardinality({ n \in 1..Len(files) :
                                 files[n] = output_file(p) }) = 1

(* a step that draws, draws on the open figure of the current page, after *)
(* all earlier pages were written; a step that writes a file writes the   *)
(* fully drawn current page and closes its figure; a figure is opened     *)
(* only when none is open                                                 *)
PageByPage ==
    /\ << bars', texts', labels', dividers', closing' >>
          # << bars, texts, labels, dividers, closing >>
       \/ (ticks' # ticks /\ ticks' # {}) =>
          /\ fig = page_num /\ fig' = fig
          /\ Len(files) = page_num - 1 /\ files' = files
    /\ files' # files =>
          /\ files' = Append(files, output_file(page_num))
          /\ fig = page_num /\ fig' = 0
          /\ j > Len(intervals)
          /\ ClosingOf(page_num) # {}
          /\ ticks # {}
          /\ << bars', texts', labels', dividers', closing', ticks' >>
                = << bars, texts, labels, dividers, closing, ticks >>
    /\ (fig' # fig /\ fig' # 0) =>
          fig = 0 /\ fig' = Len(files) + 1 /\ files' = files

(* C24: page N is fully drawn, written to borehole_log_output_page{N}.png *)
(* and its figure closed before anything of page N+1 is drawn; the file   *)
(* names of different pages differ, and every page's file is written      *)
(* exactly once in a run.                                                 *)
C24_SequentialPages == [] PagesInOrder /\ [][PageByPage]_vars

(* a finished run of three pages, each written to its own file *)
C24_Witness ==
    /\ pc = "done"
    /\ Len(files) = 3
    /\ files[3] = "borehole_log_output_page3.png"
    /\ { 1, 2, 3 } \subseteq DrawnOn

(* -------------------------------- C25 --------------------------------- *)
RECURSIVE SumTo(_, _)
(* the sum of the first n entries of a sequence *)
SumTo(seq, n) == IF n = 0 THEN 0 ELSE SumTo(seq, n - 1) + seq[n]

(* C25: the nine body column widths sum to 1 and each lies in [0, 1]; the *)
(* left offset of column k is the sum of the widths of columns 0..k-1;    *)
(* the body's width table is the header bottom row's table; on every page *)
(* each body column separator is at the x of the matching header cell's   *)
(* left edge, which is the right edge of the cell before it.              *)
C25_ColumnGeometry ==
    /\ Len(log_col_widths) = 9
    /\ SumTo(log_col_widths, 9) = X_ONE
    /\ \A k \in 1..9 : log_col_widths[k] >= 0 /\ log_col_widths[k] <= X_ONE
    /\ \A k \in 0..9 : log_col_x(k) = SumTo(log_col_widths, k)
    /\ log_col_widths = new_col_widths
    /\ \A p \in Built :
          /\ Cardinality({ c \in header_cells : c.page = p }) = 9
          /\ Cardinality({ v \in separators : v.page = p }) = 8
          /\ \A v \in { u \in separators : u.page = p } :
                /\ \E c \in header_cells :
                      c.page = p /\ c.i = v.idx /\ c.x = v.x
                /\ \E c \in header_cells :
                      c.page = p /\ c.i = v.idx - 1 /\ c.x + c.w = v.x
    /\ \A v \in bars : v.x = log_col_x(6) /\ v.x + v.w = log_col_x(7)
    /\ \A v \in separators : v.page \in Built
    /\ \A c \in header_cells : c.page \in Built

(* two pages with their header rows and separators, and a bar in the      *)
(* legend column between the separators of columns 6 and 7                *)
C25_Witness ==
    /\ Len(pages) = 2
    /\ \E v \in separators : v.page = 2 /\ v.idx = 8 /\ v.x = 9600
    /\ \E c \in header_cells : c.page = 2 /\ c.i = 8 /\ c.x = 9600
    /\ \E v \in bars : v.page = 2 /\ v.x = 4900 /\ v.w = 1000

(* -------------------------------- C26 --------------------------------- *)
(* the depth a label of page p is about: the top or the base of the       *)
(* segment of its interval                                                *)
LabelDepths(l) ==
    { IF l.edge = "top" THEN pages[l.page][k].Depth_Top
      ELSE pages[l.page][k].Depth_Base : k \in SegsOf(l.orig_idx, l.page) }

(* the labels drawn for the same edge of the same segment in column c *)
Partners(l, c) ==
    { m \in labels : /\ m.page = l.page /\ m.orig_idx = l.orig_idx
                     /\ m.edge = l.edge /\ m.col = c }

(* C26: with every depth label (top or base) for depth d one level label  *)
(* is drawn, in the level column, at the same y, with the value           *)
(* ground_level - d; and every level label has its depth label.           *)
C26_LevelLabels ==
    \A l \in labels :
        /\ l.page \in Built
        /\ l.col \in { "depth", "level" }
        /\ Cardinality(LabelDepths(l)) = 1
        /\ Cardinality(Partners(l, "depth")) = 1
        /\ Cardinality(Partners(l, "level")) = 1
        /\ \A d \in LabelDepths(l) :
              /\ \A m \in Partners(l, "depth") :
                    /\ m.y = l.y /\ m.va = l.va
                    /\ m.text = Fmt2(d)
                    /\ m.x > log_col_x(4) /\ m.x < log_col_x(5)
              /\ \A m \in Partners(l, "level") :
                    /\ m.y = l.y /\ m.va = l.va
                    /\ m.text = Fmt2((125 * TICKS_PER_UNIT) \div 2 - d)
                    /\ m.x > log_col_x(5) /\ m.x < log_col_x(6)

(* a top label and a base label at 5.00 on page 1, each with its level    *)
(* label 57.50 at the same y                                              *)
C26_Witness ==
    /\ \E l, m \in labels :
          /\ l.page = 1 /\ l.col = "depth" /\ l.edge = "top" /\ l.text = 500
          /\ m \in Partners(l, "level") /\ m.text = 5750 /\ m.y = l.y
    /\ \E l, m \in labels :
          /\ l.page = 1 /\ l.col = "depth" /\ l.edge = "base" /\ l.text = 500
          /\ m \in Partners(l, "level") /\ m.text = 5750 /\ m.y = l.y

(* ====================================================================== *)
(* The single-page log: plot_dummy_borehole_log of                        *)
(* borehole_log_professional.py, lines 783-1045. It runs on the variables *)
(* of the same names; the whole log is on one figure, page 1, whose       *)
(* height stands for the whole depth of the borehole. A y of this figure  *)
(* is kept as [num, den, off], standing for                               *)
(* 1 - (1 - bottom_line_y) * num / den + off / 1000, with num / den in    *)
(* lowest terms, so that two y are equal exactly if their records are.    *)
(* ====================================================================== *)
RECURSIVE GCD(_, _)
GCD(a, b) == IF b = 0 THEN a ELSE GCD(b, a % b)

(* the y that lies the fraction n / d of the scale below the top, moved  *)
(* up by off / 1000                                                       *)
YAt(n, d, off) ==
    LET g == GCD(n, d) IN [num |-> n \div g, den |-> d \div g, off |-> off]

(* line 863: bottom_line_y = 0.025, the lower end of the scale *)
single_bottom_line_y == YAt(1, 1, 0)

(* lines 865-867: 1 - (1 - bottom_line_y) * (depth / log_depth) *)
single_depth_to_y(depth, ldepth) == YAt(depth, ldepth, 0)

(* lines 1003-1006: 1 - (1 - bottom_line_y) * (marker / 10) below marker  *)
(* 10, bottom_line_y for marker 10                                        *)
single_y_marker(marker) ==
    IF marker < 10 THEN YAt(marker, 10, 0) ELSE single_bottom_line_y

(* lines 1028-1034: (i + sub / 10) / 10 of the scale in the first nine    *)
(* groups; in the last group sub / 10 of the way from marker 9 to         *)
(* bottom_line_y                                                          *)
single_y_subtick(i, sub) ==
    IF i < 9 THEN YAt(10 * i + sub, 100, 0) ELSE YAt(90 + sub, 100, 0)

(* lines 975-982: the divider is drawn at y_base *)
single_divider_y(y_top, y_base) == y_base

(* the table of the header row of this file's draw_header, line 706 *)
single_new_col_widths == << 500, 1000, 600, 1200, 800, 800, 1000, 3700, 400 >>

RECURSIVE single_header_x(_)
(* draw_header of this file: x when cell i (0-based) is drawn *)
single_header_x(i) ==
    IF i = 0 THEN 0 ELSE single_header_x(i - 1) + single_new_col_widths[i]

SingleInit ==
    /\ data \in Boreholes \cup { DUMMY_BOREHOLE_DATA }
    /\ pc = "start"
    /\ log_depth = 0
    /\ last_borehole_page = 0
    /\ page_num = 0
    /\ page_top = 0
    /\ page_bot = 0
    /\ intervals = << >>
    /\ j = 1
    /\ pages = << >>
    /\ bars = {}
    /\ texts = {}
    /\ labels = {}
    /\ dividers = {}
    /\ closing = {}
    /\ ticks = {}
    /\ tick_labels = {}
    /\ saved = << >>
    /\ fig = 0
    /\ files = << >>
    /\ header_cells = {}
    /\ separators = {}
    /\ WrapIdle

(* what the single-page log never touches *)
single_idle == << wvars, data, last_borehole_page, page_num, page_top,
                  page_bot, intervals, pages >>

(* lines 784-869: the figure with its header and column separators, and   *)
(* log_depth                                                              *)
SingleStart ==
    /\ pc = "start"
    /\ log_depth' = MaxBase(data, 1)
    /\ fig' = 1
    /\ header_cells' =
          { [page |-> 1, i |-> i, x |-> single_header_x(i),
             w |-> single_new_col_widths[i + 1]] :
               i \in 0..(Len(single_new_col_widths) - 1) }
    /\ separators' =
          { [page |-> 1, idx |-> idx, x |-> log_col_x(idx)] :
               idx \in 1..(Len(log_col_widths) - 1) }
    /\ j' = 1
    /\ pc' = "rows"
    /\ UNCHANGED << single_idle, bars, texts, labels, dividers, closing,
                    ticks, tick_labels, saved, files >>

(* lines 870-982: one iteration of the loop over the rows; j is the       *)
(* 1-based number of the row, i = j - 1 in the script                     *)
SingleRow ==
    /\ pc = "rows"
    /\ j <= Len(data)
    /\ LET row == data[j]
           last == j = Len(data)
           y_top == single_depth_to_y(row.Depth_Top, log_depth)
           y_center == YAt(row.Depth_Top + row.Depth_Base, 2 * log_depth, 0)
           y_base == IF last THEN single_bottom_line_y
                     ELSE single_depth_to_y(row.Depth_Base, log_depth)
           base_y == IF last THEN YAt(1, 1, -2) ELSE y_base
           base_va == IF last THEN "bottom" ELSE "top"
       IN  /\ bars' = bars \cup
                 { [page |-> 1, orig_idx |-> j, x |-> legend_left,
                    y |-> y_base, w |-> legend_width, top |-> y_top] }
           /\ texts' = texts \cup
                 { [page |-> 1, orig_idx |-> j, kind |-> "code",
                    x |-> legend_left + legend_width \div 2,
                    y |-> y_center, text |-> row.Geology_Code],
                   [page |-> 1, orig_idx |-> j, kind |-> "description",
                    x |-> desc_left + desc_width \div 50,
                    y |-> y_center, text |-> row.Description] }
           /\ labels' = labels
                 \cup (IF j = 1 /\ row.Depth_Top > 0
                       THEN { [page |-> 1, orig_idx |-> j, edge |-> "top",
                               col |-> "depth",
                               x |-> depth_left + depth_width \div 2,
                               y |-> y_top, text |-> Fmt2(row.Depth_Top),
                               va |-> "bottom"],
                              [page |-> 1, orig_idx |-> j, edge |-> "top",
                               col |-> "level",
                               x |-> level_left + level_width \div 2,
                               y |-> y_top,
                               text |-> Fmt2(ground_level - row.Depth_Top),
                               va |-> "bottom"] }
                       ELSE {})
                 \cup { [page |-> 1, orig_idx |-> j, edge |-> "base",
                         col |-> "depth",
                         x |-> depth_left + depth_width \div 2,
                         y |-> base_y, text |-> Fmt2(row.Depth_Base),
                         va |-> base_va],
                        [page |-> 1, orig_idx |-> j, edge |-> "base",
                         col |-> "level",
                         x |-> level_left + level_width \div 2,
                         y |-> base_y,
                         text |-> Fmt2(ground_level - row.Depth_Base),
                         va |-> base_va] }
           /\ dividers' = dividers
                 \cup (IF j > 1
                       THEN { [page |-> 1, j |-> j,
                               y |-> single_divider_y(y_top, y_base),
                               x0 |-> legend_left,
                               x1 |-> desc_left + desc_width] }
                       ELSE {})
    /\ j' = j + 1
    /\ UNCHANGED << single_idle, pc, log_depth, closing, ticks, tick_labels,
                    saved, fig, files, header_cells, separators >>

(* lines 984-992: the line at bottom_line_y *)
SingleBottomLine ==
    /\ pc = "rows"
    /\ j > Len(data)
    /\ closing' = closing \cup
          { [page |-> 1, y |-> single_bottom_line_y, x0 |-> legend_left,
             x1 |-> desc_left + desc_width] }
    /\ pc' = "ruler"
    /\ UNCHANGED << single_idle, log_depth, j, bars, texts, labels, dividers,
                    ticks, tick_labels, saved, fig, files, header_cells,
                    separators >>

(* lines 994-1041: the ruler with the markers 1..10 and their subticks *)
SingleRuler ==
    /\ pc = "ruler"
    /\ ticks' =
          { [page |-> 1, major |-> TRUE, k |-> marker,
             y |-> single_y_marker(marker)] : marker \in 1..10 }
          \cup { [page |-> 1, major |-> FALSE, k |-> 10 * ij[1] + ij[2],
                  y |-> single_y_subtick(ij[1], ij[2])] :
                   ij \in (0..9) \X (1..9) }
    /\ tick_labels' =
          { [page |-> 1, y |-> single_y_marker(marker), text |-> marker] :
               marker \in 1..10 }
    /\ pc' = "save"
    /\ UNCHANGED << single_idle, log_depth, j, bars, texts, labels, dividers,
                    closing, saved, fig, files, header_cells, separators >>

(* lines 1043-1045: savefig to borehole_log_output.png, close *)
SingleSave ==
    /\ pc = "save"
    /\ saved' = Append(saved, 1)
    /\ files' = Append(files, "borehole_log_output.png")
    /\ fig' = 0
    /\ pc' = "done"
    /\ UNCHANGED << single_idle, log_depth, j, bars, texts, labels, dividers,
                    closing, ticks, tick_labels, header_cells, separators >>

SingleNext ==
    \/ SingleStart
    \/ SingleRow
    \/ SingleBottomLine
    \/ SingleRuler
    \/ SingleSave

SingleSpec == SingleInit /\ [][SingleNext]_vars

(* -------------------------------- C27 --------------------------------- *)
(* C27: in the single-page log every major ruler tick labelled m (1..10)  *)
(* is drawn at the y that the depth_to_y of the strata gives for depth m, *)
(* whatever the maximum depth of the borehole.                            *)
C27_SingleRulerAlignment ==
    \A t \in ticks :
        t.major =>
            /\ \E l \in tick_labels : l.y = t.y /\ l.text = t.k
            /\ t.y = single_depth_to_y(t.k * TICKS_PER_UNIT, log_depth)

(* -------------------------------- C28 --------------------------------- *)
(* the y of the boundaries between two consecutive strata *)
SingleBoundaries ==
    { single_depth_to_y(data[i].Depth_Base, log_depth) :
         i \in 1..(Len(data) - 1) }

(* C28: in the single-page log, when all rows are drawn, there is a       *)
(* divider at the boundary between every two consecutive strata and at no *)
(* other depth.                                                           *)
C28_SingleDividers ==
    pc \in { "ruler", "save", "done" } =>
        { v.y : v \in dividers } = SingleBoundaries

(* -------------------------------- C29 --------------------------------- *)
BarsOf(p) == { v \in bars : v.page = p }

(* the bar of the last segment of page p *)
LastBarsOf(p) ==
    { v \in BarsOf(p) : v.orig_idx = pages[p][Len(pages[p])].orig_idx }

DepthLabels(i, e) ==
    { l \in labels : l.orig_idx = i /\ l.edge = e /\ l.col = "depth" }

(* C30: when the run is over, over all pages the top depth label of every *)
(* interval has been drawn at most once and its base depth label exactly  *)
(* once.                                                                  *)
C30_NoDuplicateLabels ==
    pc = "done" =>
        \A i \in Rows :
            /\ Cardinality(DepthLabels(i, "top")) <= 1
            /\ Cardinality(DepthLabels(i, "base")) = 1

====
